---- MODULE Spec2Model ----
(***************************************************************************)
(* Guard orchestration of the Groq + SLM guardrails chat backend:          *)
(*   backend/guards/base.py         run_guards, any_block,                 *)
(*                                  get_blocking_guard                     *)
(*   backend/guards/ollama_guard.py _safe_str, _parse_verdict,             *)
(*                                  call_ollama_guard                      *)
(*   backend/guards/{safety,topic,format_guard,pii}.py  the four guards    *)
(*   backend/config.py              is_guard_enabled, get_on_safety_timeout*)
(*   backend/main.py                chat (the guard pipeline part)         *)
(*                                                                         *)
(* Python strings are modelled as sequences of one-character strings, so   *)
(* that strip, lower, split, slicing and substring search are computed as  *)
(* the code computes them.                                                 *)
(***************************************************************************)
EXTENDS Integers, Sequences, FiniteSets, TLC

(***************************************************************************)
(* Bounds of the model.                                                    *)
(***************************************************************************)
\* get_guard_timeout_seconds(), in clock ticks (the code clamps the
\* configured seconds to [10, 300]; one tick stands for a fixed share of it).
TimeoutTicks == 2

\* the nesting of arrays and objects the JSON decoder can enter before the
\* interpreter raises RecursionError (scaled down from the interpreter's limit)
RecursionLimit == 3

(***************************************************************************)
(* String helpers (Python str methods used by the code).                   *)
(***************************************************************************)
UpperChars == <<"A","B","C","D","E","F","G","H","I","J","K","L","M","N","O","P","Q","R","S","T","U","V","W","X","Y","Z">>
LowerChars == <<"a","b","c","d","e","f","g","h","i","j","k","l","m","n","o","p","q","r","s","t","u","v","w","x","y","z">>

\* str.lower() on one character
LowerChar(c) ==
    IF \E i \in 1..Len(UpperChars) : UpperChars[i] = c
    THEN LowerChars[CHOOSE i \in 1..Len(UpperChars) : UpperChars[i] = c]
    ELSE c

\* str.lower()
Lower(s) == [i \in 1..Len(s) |-> LowerChar(s[i])]

\* the characters str.strip() removes and the regex class \s matches
IsSpace(c) == c \in {" ", "\n", "\t", "\r"}

\* str.strip()
Strip(s) ==
    LET keep == {i \in 1..Len(s) : ~IsSpace(s[i])}
    IN  IF keep = {} THEN <<>>
        ELSE LET lo == CHOOSE i \in keep : \A j \in 1..(i - 1) : IsSpace(s[j])
                 hi == CHOOSE i \in keep : \A j \in (i + 1)..Len(s) : IsSpace(s[j])
             IN  SubSeq(s, lo, hi)

\* s[:n]
Take(s, n) == IF Len(s) <= n THEN s ELSE SubSeq(s, 1, n)

\* sub in s
Contains(s, sub) ==
    \E i \in 1..(Len(s) - Len(sub) + 1) : SubSeq(s, i, i + Len(sub) - 1) = sub

\* s.startswith(p)
StartsWith(s, p) == Len(p) <= Len(s) /\ SubSeq(s, 1, Len(p)) = p

\* s.split("\n"): the sequence of lines (one more than the newlines)
RECURSIVE SplitLines(_)
SplitLines(s) ==
    LET nl == {i \in 1..Len(s) : s[i] = "\n"}
    IN  IF nl = {} THEN <<s>>
        ELSE LET k == CHOOSE i \in nl : \A j \in nl : i <= j
             IN  <<SubSeq(s, 1, k - 1)>> \o SplitLines(SubSeq(s, k + 1, Len(s)))

\* "\n".join(lines)
RECURSIVE JoinLines(_)
JoinLines(lines) ==
    IF Len(lines) = 0 THEN <<>>
    ELSE IF Len(lines) = 1 THEN lines[1]
    ELSE lines[1] \o <<"\n">> \o JoinLines(Tail(lines))

(***************************************************************************)
(* Literals of the code.                                                   *)
(***************************************************************************)
SAFETY_GUARD_NAME == <<"s","a","f","e","t","y">>
TopicName == <<"t","o","p","i","c">>
FormatName == <<"f","o","r","m","a","t">>
PiiName == <<"p","i","i">>
PipelineName == <<"p","i","p","e","l","i","n","e">>
Pass == <<"p","a","s","s">>
Flag == <<"f","l","a","g">>
Block == <<"b","l","o","c","k">>
VerdictWords == {Pass, Flag, Block}
\* a default verdict that fails closed
FailClosedVerdict == Block
DEFAULT_VERDICT == Flag
DEFAULT_REASON == <<"U","n","c","l","e","a","r"," ","r","e","s","p","o","n","s","e">>
TimeoutReason == <<"T","i","m","e","o","u","t">>
SafetyTimeoutReason == <<"S","a","f","e","t","y"," ","c","h","e","c","k"," ","t","i","m","e","d"," ","o","u","t",";"," ","r","e","s","p","o","n","s","e"," ","n","o","t"," ","v","e","r","i","f","i","e","d",".">>
GuardErrorPrefix == <<"G","u","a","r","d"," ","e","r","r","o","r",":"," ">>
OllamaErrorPrefix == <<"O","l","l","a","m","a"," ","e","r","r","o","r",":"," ">>
GuardsErrorPrefix == <<"G","u","a","r","d","s"," ","e","r","r","o","r",":"," ">>
PiiNoBlock == <<"P","I","I"," ","g","u","a","r","d"," ","d","o","e","s"," ","n","o","t"," ","b","l","o","c","k">>
FormatNoBlock == <<"F","o","r","m","a","t"," ","g","u","a","r","d"," ","d","o","e","s"," ","n","o","t"," ","b","l","o","c","k">>
BLOCKED_MESSAGE == <<"T","h","i","s"," ","r","e","s","p","o","n","s","e"," ","w","a","s"," ","b","l","o","c","k","e","d"," ","b","y"," ","a"," ","s","a","f","e","t","y"," ","c","h","e","c","k",".">>
Phi3 == <<"p","h","i","3">>
\* the reason length kept by _parse_verdict
MaxReasonLen == 200

\* GUARD_FNS of main.py: the configured guards, in order
GUARD_FNS == <<SAFETY_GUARD_NAME, TopicName, FormatName, PiiName>>
GuardNames == {GUARD_FNS[i] : i \in 1..Len(GUARD_FNS)}

\* GuardResult(name, verdict, reason, model)
GuardResult(n, v, r, m) == [name |-> n, verdict |-> v, reason |-> r, model |-> m]
\* the None placeholder of a result slot
None == [name |-> <<>>, verdict |-> <<>>, reason |-> <<>>, model |-> <<"N","o","n","e">>]

(***************************************************************************)
(* backend/guards/ollama_guard.py                                          *)
(***************************************************************************)
\* _safe_str on a str: strip
SafeStr(s) == Strip(s)

\* re.match(r"^(pass|flag|block)\s*:?\s*$", line, re.I) on a stripped line
BareVerdictLine(line) ==
    \E w \in VerdictWords :
        /\ Len(line) >= Len(w)
        /\ Lower(SubSeq(line, 1, Len(w))) = w
        /\ LET rem == SubSeq(line, Len(w) + 1, Len(line))
               colons == {i \in 1..Len(rem) : rem[i] = ":"}
           IN  /\ Cardinality(colons) <= 1
               /\ \A i \in 1..Len(rem) : rem[i] = ":" \/ IsSpace(rem[i])

\* the for loop of the fallback: the first stripped line that is not empty
\* and not a bare verdict word, cut to 200; "" when there is none
RECURSIVE FirstReasonLine(_)
FirstReasonLine(lines) ==
    IF Len(lines) = 0 THEN <<>>
    ELSE LET line == SafeStr(lines[1])
         IN  IF Len(line) > 0 /\ ~BareVerdictLine(line)
             THEN Take(line, MaxReasonLen)
             ELSE FirstReasonLine(Tail(lines))

\* rule 3 of _parse_verdict: substring search, block > flag > pass
FallbackVerdict(raw) ==
    LET raw_lower == Lower(raw)
    IN  IF Contains(raw_lower, Block) THEN Block
        ELSE IF Contains(raw_lower, Flag) THEN Flag
        ELSE Pass

(***************************************************************************)
(* json.loads on the text from the first "{" to the last "}".  The model   *)
(* covers JSON objects whose values are strings without escapes, integers, *)
(* true, false, null, arrays and objects; a backslash or a fraction or     *)
(* exponent is outside it and is read as a decode error, so the texts the  *)
(* model draws hold none of them.                                          *)
(***************************************************************************)
Digits == {"0","1","2","3","4","5","6","7","8","9"}
JsonNull == [t |-> "null", v |-> <<>>]
JsonFail == [ok |-> FALSE, deep |-> FALSE, next |-> 0, val |-> JsonNull]

\* the first position from i on that holds no JSON whitespace
RECURSIVE SkipWs(_, _)
SkipWs(s, i) ==
    IF i <= Len(s) /\ IsSpace(s[i]) THEN SkipWs(s, i + 1) ELSE i

\* the position of the quote that closes a string whose text starts at i;
\* 0 when the string is not terminated or holds a control character
RECURSIVE StringEnd(_, _)
StringEnd(s, i) ==
    IF i > Len(s) THEN 0
    ELSE IF s[i] = "\"" THEN i
    ELSE IF s[i] \in {"\n", "\t", "\r", "\\"} THEN 0
    ELSE StringEnd(s, i + 1)

\* the first position from i on that holds no digit
RECURSIVE DigitsEnd(_, _)
DigitsEnd(s, i) ==
    IF i <= Len(s) /\ s[i] \in Digits THEN DigitsEnd(s, i + 1) ELSE i

HasAt(s, i, w) == i + Len(w) - 1 <= Len(s) /\ SubSeq(s, i, i + Len(w) - 1) = w

JsonDeep == [ok |-> FALSE, deep |-> TRUE, next |-> 0, val |-> JsonNull]
JsonOk(n, v) == [ok |-> TRUE, deep |-> FALSE, next |-> n, val |-> v]

\* a JSON value that is no array and no object, at position i
JsonScalar(s, i) ==
    IF s[i] = "\""
    THEN LET e == StringEnd(s, i + 1)
         IN  IF e = 0 THEN JsonFail
             ELSE JsonOk(e + 1, [t |-> "str", v |-> SubSeq(s, i + 1, e - 1)])
    ELSE IF HasAt(s, i, <<"t","r","u","e">>)
    THEN JsonOk(i + 4, [t |-> "true", v |-> <<>>])
    ELSE IF HasAt(s, i, <<"f","a","l","s","e">>)
    THEN JsonOk(i + 5, [t |-> "false", v |-> <<>>])
    ELSE IF HasAt(s, i, <<"n","u","l","l">>)
    THEN JsonOk(i + 4, JsonNull)
    ELSE LET d == IF s[i] = "-" THEN i + 1 ELSE i
             e == DigitsEnd(s, d)
         IN  IF e = d THEN JsonFail
             ELSE IF s[d] = "0" /\ e > d + 1 THEN JsonFail
             ELSE IF e <= Len(s) /\ s[e] \in {".", "e", "E"} THEN JsonFail
             ELSE JsonOk(e, [t |-> "num", v |-> SubSeq(s, i, e - 1)])

RECURSIVE JsonValue(_, _, _)
RECURSIVE JsonMembers(_, _, _, _)
RECURSIVE JsonElements(_, _, _, _)

\* what follows the value v of the member whose key is s[k+1..ke-1]: the
\* end of the object, or a comma and the next member
JsonAfterMember(s, k, ke, v, acc, depth) ==
    LET n == SkipWs(s, v.next)
    IN  IF ~v.ok THEN v
        ELSE IF n > Len(s) THEN JsonFail
        ELSE IF s[n] = "}"
        THEN JsonOk(n + 1, [t |-> "dict",
                            v |-> Append(acc, [key |-> SubSeq(s, k + 1, ke - 1), val |-> v.val])])
        ELSE IF s[n] = ","
        THEN JsonMembers(s, n + 1,
                         Append(acc, [key |-> SubSeq(s, k + 1, ke - 1), val |-> v.val]), depth)
        ELSE JsonFail

\* the member whose key starts at k and ends at ke, the colon expected at c
JsonKeyed(s, k, ke, c, acc, depth) ==
    IF ke = 0 \/ c > Len(s) \/ s[c] # ":" THEN JsonFail
    ELSE JsonAfterMember(s, k, ke, JsonValue(s, SkipWs(s, c + 1), depth), acc, depth)

JsonMemberAt(s, k, acc, depth) ==
    IF k > Len(s) \/ s[k] # "\"" THEN JsonFail
    ELSE JsonKeyed(s, k, StringEnd(s, k + 1), SkipWs(s, StringEnd(s, k + 1) + 1), acc, depth)

\* the members of an object from position i on (after "{" or a comma);
\* acc holds the pairs read so far
JsonMembers(s, i, acc, depth) == JsonMemberAt(s, SkipWs(s, i), acc, depth)

\* what follows an element v of an array
JsonAfterElement(s, v, acc, depth) ==
    LET n == SkipWs(s, v.next)
    IN  IF ~v.ok THEN v
        ELSE IF n > Len(s) THEN JsonFail
        ELSE IF s[n] = "]" THEN JsonOk(n + 1, [t |-> "list", v |-> Append(acc, v.val)])
        ELSE IF s[n] = "," THEN JsonElements(s, n + 1, Append(acc, v.val), depth)
        ELSE JsonFail

\* the elements of an array from position i on (after "[" or a comma)
JsonElements(s, i, acc, depth) ==
    JsonAfterElement(s, JsonValue(s, SkipWs(s, i), depth), acc, depth)

\* the object or array that opens at position i, `depth` containers deep
JsonContainer(s, i, k, depth) ==
    IF s[i] = "{"
    THEN IF k <= Len(s) /\ s[k] = "}" THEN JsonOk(k + 1, [t |-> "dict", v |-> <<>>])
         ELSE JsonMembers(s, i + 1, <<>>, depth)
    ELSE IF k <= Len(s) /\ s[k] = "]" THEN JsonOk(k + 1, [t |-> "list", v |-> <<>>])
         ELSE JsonElements(s, i + 1, <<>>, depth)

\* one JSON value at position i, inside `depth` containers; the decoder
\* recurses once for each array or object it enters and raises
\* RecursionError when that passes the interpreter's limit
JsonValue(s, i, depth) ==
    IF i > Len(s) THEN JsonFail
    ELSE IF s[i] \in {"{", "["}
    THEN IF depth >= RecursionLimit THEN JsonDeep
         ELSE JsonContainer(s, i, SkipWs(s, i + 1), depth + 1)
    ELSE JsonScalar(s, i)

\* the outcome of json.loads once the value r is read from s
JsonLoaded(s, r) ==
    IF r.ok /\ r.next = Len(s) + 1
    THEN [ok |-> TRUE, deep |-> FALSE, obj |-> r.val.v]
    ELSE [ok |-> FALSE, deep |-> r.deep, obj |-> <<>>]

\* json.loads(s) for s that starts with "{": the pairs of the object, a
\* decode error, or (deep) a RecursionError
JsonLoads(s) == JsonLoaded(s, JsonValue(s, 1, 0))

\* obj.get(key): the value of the last pair with that key, None when absent
JsonGet(obj, key) ==
    LET at == {i \in 1..Len(obj) : obj[i].key = key}
    IN  IF at = {} THEN JsonNull
        ELSE obj[CHOOSE i \in at : \A j \in at : j <= i].val

\* the truth value Python gives a decoded value
Truthy(val) ==
    CASE val.t = "str" -> val.v # <<>>
      [] val.t = "num" -> \E i \in 1..Len(val.v) : val.v[i] \in Digits \ {"0"}
      [] val.t = "true" -> TRUE
      [] val.t \in {"list", "dict"} -> val.v # <<>>
      [] OTHER -> FALSE

\* a or b or ""
OrElse(a, b) ==
    IF Truthy(a) THEN a ELSE IF Truthy(b) THEN b ELSE [t |-> "str", v |-> <<>>]

\* _safe_str(x) of a decoded value: "" for what is no str
SafeStrOf(val) == IF val.t = "str" THEN Strip(val.v) ELSE <<>>

\* the pairs of a decoded object as the dict holds them: one item for each
\* key, at the place of its first pair, with the value of its last pair
DictItems(pairs) ==
    SelectSeq([i \in 1..Len(pairs) |->
                  [key |-> pairs[i].key, val |-> JsonGet(pairs, pairs[i].key),
                   first |-> \A j \in 1..(i - 1) : pairs[j].key # pairs[i].key]],
              LAMBDA it : it.first)

RECURSIVE Repr(_)
RECURSIVE ReprItems(_, _)

\* the texts of the items of a list (dict = FALSE) or dict (dict = TRUE),
\* joined by ", "
ReprItems(items, dict) ==
    IF items = <<>> THEN <<>>
    ELSE (IF dict THEN <<"'">> \o Head(items).key \o <<"'", ":", " ">> \o Repr(Head(items).val)
          ELSE Repr(Head(items)))
         \o (IF Len(items) > 1 THEN <<",", " ">> ELSE <<>>)
         \o ReprItems(Tail(items), dict)

\* repr(x) of a decoded value (strings hold no quote and no escape)
Repr(val) ==
    CASE val.t = "str" -> <<"'">> \o val.v \o <<"'">>
      [] val.t = "num" -> val.v
      [] val.t = "true" -> <<"T","r","u","e">>
      [] val.t = "false" -> <<"F","a","l","s","e">>
      [] val.t = "list" -> <<"[">> \o ReprItems(val.v, FALSE) \o <<"]">>
      [] val.t = "dict" -> <<"{">> \o ReprItems(DictItems(val.v), TRUE) \o <<"}">>
      [] OTHER -> <<"N","o","n","e">>

\* str(x) of a decoded value
StrOf(val) == IF val.t = "str" THEN val.v ELSE Repr(val)

VerdictKey == <<"v","e","r","d","i","c","t">>
ResultKey == <<"r","e","s","u","l","t">>
ReasonKey == <<"r","e","a","s","o","n">>
ExplanationKey == <<"e","x","p","l","a","n","a","t","i","o","n">>

NoJsonVerdict == [hit |-> FALSE, raised |-> FALSE, verdict |-> <<>>, reason |-> <<>>]

\* json.loads raised what the except clause of rule 2 does not catch
JsonRaised == [hit |-> FALSE, raised |-> TRUE, verdict |-> <<>>, reason |-> <<>>]

\* the verdict and reason fields of a decoded object:
\* v = _safe_str(obj.get("verdict") or obj.get("result") or "").lower()
\* r = obj.get("reason") or obj.get("explanation") or ""
JsonFields(v, r) ==
    IF v \in VerdictWords
    THEN [hit |-> TRUE, raised |-> FALSE, verdict |-> v,
          reason |-> Take(SafeStr(StrOf(r)), MaxReasonLen)]
    ELSE NoJsonVerdict

JsonObjectVerdict(j) ==
    IF j.ok
    THEN JsonFields(Lower(SafeStrOf(OrElse(JsonGet(j.obj, VerdictKey),
                                           JsonGet(j.obj, ResultKey)))),
                    OrElse(JsonGet(j.obj, ReasonKey), JsonGet(j.obj, ExplanationKey)))
    ELSE IF j.deep THEN JsonRaised
    ELSE NoJsonVerdict

\* the least and the greatest element of a non-empty set of positions
MinOf(S) == CHOOSE i \in S : \A j \in S : i <= j
MaxOf(S) == CHOOSE i \in S : \A j \in S : j <= i

\* raw[start:end] decoded, when end > start
JsonSlice(raw, start, end) ==
    IF end < start THEN NoJsonVerdict
    ELSE JsonObjectVerdict(JsonLoads(SubSeq(raw, start, end)))

JsonBetween(raw, opens, closes) ==
    IF opens = {} \/ closes = {} THEN NoJsonVerdict
    ELSE JsonSlice(raw, MinOf(opens), MaxOf(closes))

\* rule 2 of _parse_verdict: [hit, raised, verdict, reason]
JsonVerdict(raw) ==
    JsonBetween(raw, {i \in 1..Len(raw) : raw[i] = "{"},
                     {i \in 1..Len(raw) : raw[i] = "}"})

\* the reason of rule 3
FallbackReason(raw, r) ==
    IF r = <<>> /\ raw # <<>> THEN Take(raw, MaxReasonLen) ELSE r

\* _parse_verdict left by an exception instead of a return
ParseRaised == [raised |-> TRUE, verdict |-> <<>>, reason |-> <<>>]

\* rules 2 and 3
ParseRest(raw, lines, js) ==
    IF js.hit
    THEN [raised |-> FALSE, verdict |-> js.verdict, reason |-> js.reason]
    ELSE IF js.raised
    THEN ParseRaised
    ELSE [raised |-> FALSE, verdict |-> FallbackVerdict(raw),
          reason |-> FallbackReason(raw, FirstReasonLine(lines))]

\* rule 1, then the others
ParseLines(raw, lines, first_line) ==
    IF first_line \in VerdictWords
    THEN [raised |-> FALSE, verdict |-> first_line,
          reason |-> Take(Strip(JoinLines(Tail(lines))), MaxReasonLen)]
    ELSE ParseRest(raw, lines, JsonVerdict(raw))

\* rule 1 on a first line that is not case-folded
ParseSplitNoFold(raw, lines) == ParseLines(raw, lines, SafeStr(lines[1]))

\* lines = raw.split("\n"); first_line = _safe_str(lines[0]).lower()
ParseSplit(raw, lines) == ParseLines(raw, lines, Lower(SafeStr(lines[1])))

ParseRaw(raw) == ParseSplit(raw, SplitLines(raw))

\* _parse_verdict(text) -> (verdict, reason), or raised
ParseVerdict(text) == ParseRaw(SafeStr(text))

\* the checks of call_ollama_guard on what _parse_verdict returned
ParsedResult(name, p) ==
    IF p.raised
    THEN GuardResult(name, DEFAULT_VERDICT, DEFAULT_REASON, <<>>)
    ELSE IF p.verdict \notin VerdictWords
    THEN GuardResult(name, DEFAULT_VERDICT,
                     IF p.reason = <<>> THEN DEFAULT_REASON ELSE p.reason, <<>>)
    ELSE GuardResult(name, p.verdict, p.reason, <<>>)

\* the call of ollama.chat and what follows, for the cleaned guard name
CallNamed(name, out) ==
    IF out.kind = "error"
    THEN GuardResult(name, DEFAULT_VERDICT, OllamaErrorPrefix \o out.text, <<>>)
    ELSE ParsedResult(name, ParseVerdict(SafeStr(out.text)))

\* _safe_str(guard_name) or "guard"
NameOrGuard(n) == IF n = <<>> THEN <<"g","u","a","r","d">> ELSE n

\* call_ollama_guard whose except branch drops the error text
CallOllamaGuardSilent(guard_name, out) ==
    IF out.kind = "error"
    THEN GuardResult(guard_name, Flag, <<>>, <<>>)
    ELSE ParsedResult(guard_name, ParseVerdict(SafeStr(out.text)))

\* call_ollama_guard(guard_name, system_prompt, user_content, model): `out` is
\* what ollama.chat does, an exception ("error") or a response text ("text")
CallOllamaGuard(guard_name, out) == CallNamed(NameOrGuard(SafeStr(guard_name)), out)

(***************************************************************************)
(* The four guards.                                                        *)
(***************************************************************************)
safety_guard(out) == CallOllamaGuard(SAFETY_GUARD_NAME, out)

topic_guard(out) == CallOllamaGuard(TopicName, out)

\* if r.verdict == "block": return GuardResult(r.name, "flag", r.reason or <default>)
NoBlock(r, default) ==
    IF r.verdict = Block
    THEN GuardResult(r.name, Flag, IF r.reason = <<>> THEN default ELSE r.reason, <<>>)
    ELSE r

format_guard(out) == NoBlock(CallOllamaGuard(FormatName, out), FormatNoBlock)

\* pii_guard without the block ceiling
pii_guard_no_ceiling(out) == CallOllamaGuard(PiiName, out)

pii_guard(out) == NoBlock(CallOllamaGuard(PiiName, out), PiiNoBlock)

\* the callable GUARD_FNS binds to a name
GuardFn(name, out) ==
    CASE name = SAFETY_GUARD_NAME -> safety_guard(out)
      [] name = TopicName -> topic_guard(out)
      [] name = FormatName -> format_guard(out)
      [] OTHER -> pii_guard(out)

(***************************************************************************)
(* backend/config.py                                                       *)
(***************************************************************************)
\* get_guard_model: no model configured, the default
get_guard_model(name) == Phi3

\* get_on_safety_timeout on the raw configuration value: absent or falsy
\* ("none"), a string ("str"), or a truthy value that is no string ("other",
\* which has no strip and raises AttributeError)
OnSafetyTimeoutRaises(raw) == raw.kind = "other"

\* get_on_safety_timeout comparing the raw value, without strip and lower
get_on_safety_timeout_exact(raw) ==
    IF raw.kind = "str" /\ raw.val = Block THEN Block ELSE Flag

get_on_safety_timeout(raw) ==
    LET s == IF raw.kind = "str" /\ raw.val # <<>> THEN raw.val ELSE Flag
        v == Lower(Strip(s))
    IN  IF v = Block THEN Block ELSE Flag

AttributeErrorText == <<"n","o"," ","a","t","t","r","i","b","u","t","e"," ","'","s","t","r","i","p","'">>
RuntimeErrorText == <<"c","a","n","'","t"," ","s","t","a","r","t"," ","n","e","w"," ","t","h","r","e","a","d">>

(***************************************************************************)
(* backend/guards/base.py                                                  *)
(***************************************************************************)
\* run_one whose except branch fails closed
\* GuardResult(name=r.name, verdict=r.verdict, reason=r.reason, model=model)
WithModel(r, model) == GuardResult(r.name, r.verdict, r.reason, model)

run_one_fail_closed(name, model, out) ==
    IF out.kind = "raise"
    THEN GuardResult(name, Block, GuardErrorPrefix \o out.text, model)
    ELSE WithModel(GuardFn(name, out), model)

\* run_one(name, fn, model): `out` is what the check function does, raising
\* ("raise") included
run_one(name, model, out) ==
    IF out.kind = "raise"
    THEN GuardResult(name, Flag, GuardErrorPrefix \o out.text, model)
    ELSE WithModel(GuardFn(name, out), model)

\* a timeout branch that leaves the slot empty
TimeoutLeavesNone(name, model, policy) == None

\* the except FuturesTimeoutError branch of run_guards
TimeoutResult(name, model, policy) ==
    IF name = SAFETY_GUARD_NAME /\ policy = Block
    THEN GuardResult(name, Block, SafetyTimeoutReason, model)
    ELSE GuardResult(name, Flag, TimeoutReason, model)

\* any_block(results)
any_block(rs) == \E i \in 1..Len(rs) : rs[i].verdict = Block

\* a scan that keeps the last block result instead of the first
RECURSIVE LastBlockingGuard(_)
LastBlockingGuard(rs) ==
    IF Len(rs) = 0 THEN None
    ELSE IF rs[Len(rs)].verdict = Block THEN rs[Len(rs)]
    ELSE LastBlockingGuard(SubSeq(rs, 1, Len(rs) - 1))

\* get_blocking_guard(results): the for loop, None when it falls through
RECURSIVE get_blocking_guard(_)
get_blocking_guard(rs) ==
    IF Len(rs) = 0 THEN None
    ELSE IF Head(rs).verdict = Block THEN Head(rs)
    ELSE get_blocking_guard(Tail(rs))

\* [r for r in results if r is not None]
NotNone(r) == r # None
DropNone(rs) == SelectSeq(rs, NotNone)

(***************************************************************************)
(* Inputs of the model.                                                    *)
(***************************************************************************)
\* the raw on_safety_timeout values of config.yaml the model draws from
OnTimeoutRaws ==
    { [kind |-> "none", val |-> <<>>],
      [kind |-> "str", val |-> Flag],
      [kind |-> "str", val |-> <<" ","B","l","o","c","k"," ">>],
      [kind |-> "other", val |-> <<>>] }

\* what one check invocation does: the check function raises, the classifier
\* call fails (with an error message of 200 characters), or the classifier
\* answers with a text
Outcomes ==
    { [kind |-> "raise", text |-> <<"b","o","o","m">>],
      [kind |-> "error", text |-> [i \in 1..MaxReasonLen |-> "e"]],
      [kind |-> "text", text |-> Pass],
      [kind |-> "text", text |-> <<"b","l","o","c","k","\n","r","e","a","s","o","n">>] }

NoOutcome == [kind |-> "none", text |-> <<>>]

\* raw_response of chat: the candidate reply
Reply == <<"H","i"," ","t","h","e","r","e">>

(***************************************************************************)
(* State.                                                                  *)
(***************************************************************************)
VARIABLES
    cfg,                \* _config: [enabled, on_safety_timeout]
    pc,                 \* position of the chat request handler
    tasks,              \* run_guards: names of the enabled tasks, in order
    on_safety_timeout,  \* run_guards: the policy read before dispatch
    nsub,               \* run_guards: number of tasks submitted
    fut,                \* the futures: state, outcome, lateness, value
    idx,                \* run_guards: the future the loop waits on
    waited,             \* ticks spent in the current future.result(timeout)
    now,                \* ticks since dispatch, capped at TimeoutTicks + 1
    results,            \* run_guards: the result slots
    how,                \* which branch wrote each slot
    invoked,            \* names of the check functions that were called
    rg,                 \* outcome of the run_guards call
    guard_results,      \* chat: guard_results
    response,           \* chat: the ChatResponse
    text,               \* _parse_verdict: the argument
    parsed,             \* _parse_verdict: what the call returned or raised
    lists,              \* the list objects the session store has created
    sessions,           \* _sessions: session id -> list object (0: no key)
    thr,                \* the requests that use the session store
    appended            \* the append_exchange calls that returned, in order

vars == <<cfg, pc, tasks, on_safety_timeout, nsub, fut, idx, waited, now,
          results, how, invoked, rg, guard_results, response,
          text, parsed, lists, sessions, thr, appended>>

\* the state of one chat request and its run_guards call
runVars == <<cfg, pc, tasks, on_safety_timeout, nsub, fut, idx, waited, now,
             results, how, invoked, rg, guard_results, response>>
\* the argument and the outcome of one _parse_verdict call
parseVars == <<text, parsed>>
\* the session store and the requests that use it
storeVars == <<lists, sessions, thr, appended>>

SessionIds == {"s1", "s2"}
NoParsed == [done |-> FALSE, raised |-> FALSE, verdict |-> <<>>, reason |-> <<>>]

\* no _parse_verdict call under observation
ParseIdle == text = <<>> /\ parsed = NoParsed

\* the session store as the module leaves it at import, with no request
StoreIdle ==
    /\ lists = <<>>
    /\ sessions = [s \in SessionIds |-> 0]
    /\ thr = <<>>
    /\ appended = <<>>

MAX_HISTORY_MESSAGES == 20

\* append_exchange calls each request thread makes: alone, and concurrently
MaxCalls == 12
ConcCalls == 2
\* request threads that run concurrently
NumThreads == 2
\* exchanges appended to session "s1" before the concurrent requests start
MaxPrior == 10

\* the two messages of exchange x
UserMessage(x) == [role |-> "user", content |-> x]
AssistantMessage(x) == [role |-> "assistant", content |-> x]

\* trimming that keeps the oldest messages
TrimmedToOldest(messages) == SubSeq(messages, 1, MAX_HISTORY_MESSAGES)

\* messages[-MAX_HISTORY_MESSAGES:]
Trimmed(messages) ==
    IF Len(messages) <= MAX_HISTORY_MESSAGES THEN messages
    ELSE SubSeq(messages, Len(messages) - MAX_HISTORY_MESSAGES + 1, Len(messages))

\* the buffer after n exchanges <<0, 1>> .. <<0, n>> appended one after another
RECURSIVE PriorBuffer(_)
PriorBuffer(n) ==
    IF n = 0 THEN <<>>
    ELSE Trimmed(PriorBuffer(n - 1) \o <<UserMessage(<<0, n>>), AssistantMessage(<<0, n>>)>>)

NoGot == [set |-> FALSE, sid |-> "", list |-> <<>>]

\* a request thread between two calls, with `left` append_exchange calls to go
ThreadIdle(left) ==
    [pc |-> "idle", sid |-> "", ref |-> 0, x |-> <<0, 0>>, got |-> NoGot, left |-> left]

\* _sessions[sid] of the defaultdict: a missing key gets a new empty list
ListsWith(sid) == IF sessions[sid] = 0 THEN Append(lists, <<>>) ELSE lists
SessionsWith(sid) ==
    IF sessions[sid] = 0 THEN [sessions EXCEPT ![sid] = Len(lists) + 1] ELSE sessions

\* the chat request that appends exchange <<1, left>> to session sid
ChatRequest(sid, left) ==
    [ThreadIdle(left) EXCEPT !.sid = sid, !.x = <<1, left>>]

\* append_exchange(session_id, message, raw_response) of a request that no
\* other request runs beside: the two appends and the trim
AppendExchange(sid, x) ==
    LET messages == ListsWith(sid)[SessionsWith(sid)[sid]]
                        \o <<UserMessage(x), AssistantMessage(x)>>
    IN  /\ IF Len(messages) > MAX_HISTORY_MESSAGES
           THEN /\ lists' = Append([ListsWith(sid) EXCEPT ![SessionsWith(sid)[sid]] = messages],
                                   Trimmed(messages))
                /\ sessions' = [SessionsWith(sid) EXCEPT ![sid] = Len(ListsWith(sid)) + 1]
           ELSE /\ lists' = [ListsWith(sid) EXCEPT ![SessionsWith(sid)[sid]] = messages]
                /\ sessions' = SessionsWith(sid)
        /\ appended' = Append(appended, [sid |-> sid, x |-> x])

NoFuture == [st |-> "none", out |-> NoOutcome, late |-> FALSE, res |-> None]
NoCall == [kind |-> "none", list |-> <<>>, text |-> <<>>]
NoResponse == [sent |-> FALSE, blocked |-> FALSE, text |-> <<>>, guard_results |-> <<>>]

\* no chat request under observation
RunIdle ==
    /\ cfg = [enabled |-> {}, on_safety_timeout |-> [kind |-> "none", val |-> <<>>]]
    /\ pc = "idle"
    /\ tasks = <<>>
    /\ on_safety_timeout = Flag
    /\ nsub = 0
    /\ fut = <<>>
    /\ idx = 0
    /\ waited = 0
    /\ now = 0
    /\ results = <<>>
    /\ how = <<>>
    /\ invoked = {}
    /\ rg = NoCall
    /\ guard_results = <<>>
    /\ response = NoResponse

\* is_guard_enabled(name)
is_guard_enabled(name) == name \in cfg.enabled

\* the loop of run_guards that builds tasks
EnabledTasks == SelectSeq(GUARD_FNS, is_guard_enabled)

\* chat is about to call run_guards or to take the skip_guards branch, for a
\* request of session "s1" whose history get_history has read (which made
\* the empty list of the session)
Init ==
    /\ cfg \in [enabled : SUBSET GuardNames, on_safety_timeout : OnTimeoutRaws]
    /\ pc = "call"
    /\ tasks = <<>>
    /\ on_safety_timeout = Flag
    /\ nsub = 0
    /\ fut = <<>>
    /\ idx = 0
    /\ waited = 0
    /\ now = 0
    /\ results = <<>>
    /\ how = <<>>
    /\ invoked = {}
    /\ rg = NoCall
    /\ guard_results = <<>>
    /\ response = NoResponse
    /\ ParseIdle
    /\ lists = << <<>> >>
    /\ sessions = [s \in SessionIds |-> IF s = "s1" THEN 1 ELSE 0]
    /\ thr = <<ChatRequest("s1", 1)>>
    /\ appended = <<>>

(***************************************************************************)
(* run_guards.                                                             *)
(***************************************************************************)
\* no task is enabled: return []
RunGuardsNoTasks ==
    /\ pc = "call"
    /\ EnabledTasks = <<>>
    /\ rg' = [kind |-> "ret", list |-> <<>>, text |-> <<>>]
    /\ pc' = "returned"
    /\ UNCHANGED <<cfg, tasks, on_safety_timeout, nsub, fut, idx, waited, now,
                   results, how, invoked, guard_results, response>>
    /\ UNCHANGED <<parseVars, storeVars>>

\* get_on_safety_timeout() raises: run_guards raises before any dispatch
RunGuardsConfigFault ==
    /\ pc = "call"
    /\ EnabledTasks # <<>>
    /\ OnSafetyTimeoutRaises(cfg.on_safety_timeout)
    /\ rg' = [kind |-> "exc", list |-> <<>>, text |-> AttributeErrorText]
    /\ pc' = "raised"
    /\ UNCHANGED <<cfg, tasks, on_safety_timeout, nsub, fut, idx, waited, now,
                   results, how, invoked, guard_results, response>>
    /\ UNCHANGED <<parseVars, storeVars>>

\* tasks built, policy read, results = [None] * len(tasks), executor entered
RunGuardsBegin ==
    /\ pc = "call"
    /\ EnabledTasks # <<>>
    /\ ~OnSafetyTimeoutRaises(cfg.on_safety_timeout)
    /\ tasks' = EnabledTasks
    /\ on_safety_timeout' = get_on_safety_timeout(cfg.on_safety_timeout)
    /\ results' = [i \in 1..Len(EnabledTasks) |-> None]
    /\ how' = [i \in 1..Len(EnabledTasks) |-> "none"]
    /\ fut' = [i \in 1..Len(EnabledTasks) |-> NoFuture]
    /\ nsub' = 0
    /\ pc' = "submit"
    /\ UNCHANGED <<cfg, idx, waited, now, invoked, rg, guard_results, response>>
    /\ UNCHANGED <<parseVars, storeVars>>

\* an executor with one worker for all tasks
max_workers_single(n) == 1

\* ThreadPoolExecutor(max_workers=len(tasks))
max_workers(n) == n

\* the futures whose task a worker is running
Running(f) == {i \in 1..Len(f) : f[i].st = "running"}

\* a worker that has finished its task takes the oldest queued one
StartQueued(f) ==
    IF \E i \in 1..Len(f) : f[i].st = "queued"
    THEN [f EXCEPT ![MinOf({i \in 1..Len(f) : f[i].st = "queued"})].st = "running"]
    ELSE f

\* executor.submit(run_one, name, fn, model): the task starts at once when
\* fewer than max_workers tasks are running, else it is queued
Submit ==
    /\ pc = "submit"
    /\ nsub < Len(tasks)
    /\ fut' = [fut EXCEPT ![nsub + 1].st =
                  IF Cardinality(Running(fut)) < max_workers(Len(tasks))
                  THEN "running" ELSE "queued"]
    /\ invoked' = invoked \cup {tasks[nsub + 1]}
    /\ nsub' = nsub + 1
    /\ IF nsub + 1 = Len(tasks)
       THEN pc' = "wait" /\ idx' = 1 /\ waited' = 0
       ELSE UNCHANGED <<pc, idx, waited>>
    /\ UNCHANGED <<cfg, tasks, on_safety_timeout, now, results, how, rg,
                   guard_results, response>>
    /\ UNCHANGED <<parseVars, storeVars>>

\* executor.submit raises (no worker thread can be started): the with block
\* is left by the exception
SubmitFails ==
    /\ pc = "submit"
    /\ nsub < Len(tasks)
    /\ rg' = [kind |-> "exc", list |-> <<>>, text |-> RuntimeErrorText]
    /\ pc' = "unwind"
    /\ UNCHANGED <<cfg, tasks, on_safety_timeout, nsub, fut, idx, waited, now,
                   results, how, invoked, guard_results, response>>
    /\ UNCHANGED <<parseVars, storeVars>>

\* a worker that puts what its check returned into the result slot itself
WorkerFinishWritesSlot(i) ==
    /\ i \in 1..Len(fut)
    /\ fut[i].st = "running"
    /\ \E out \in Outcomes :
         /\ fut' = StartQueued([fut EXCEPT ![i] =
                   [st |-> "done", out |-> out, late |-> (now > TimeoutTicks \/ how[i] = "timeout"),
                    res |-> run_one(tasks[i], get_guard_model(tasks[i]), out)]])
         /\ results' = [results EXCEPT ![i] = run_one(tasks[i], get_guard_model(tasks[i]), out)]
    /\ UNCHANGED <<cfg, pc, tasks, on_safety_timeout, nsub, idx, waited, now,
                   how, invoked, rg, guard_results, response>>
    /\ UNCHANGED <<parseVars, storeVars>>

\* a worker's run_one returns: the future is done. A check invocation that
\* hangs is a worker for which this step never happens. `late` records that
\* the run took longer than the timeout, counted from dispatch (so it does
\* when the wait on this future has already timed out).
WorkerFinish(i) ==
    /\ i \in 1..Len(fut)
    /\ fut[i].st = "running"
    /\ \E out \in Outcomes :
         fut' = StartQueued([fut EXCEPT ![i] =
                   [st |-> "done", out |-> out, late |-> (now > TimeoutTicks \/ how[i] = "timeout"),
                    res |-> run_one(tasks[i], get_guard_model(tasks[i]), out)]])
    /\ UNCHANGED <<cfg, pc, tasks, on_safety_timeout, nsub, idx, waited, now,
                   results, how, invoked, rg, guard_results, response>>
    /\ UNCHANGED <<parseVars, storeVars>>

\* time passes while future.result(timeout=timeout_sec) blocks
Tick ==
    /\ pc = "wait"
    /\ fut[idx].st = "running"
    /\ waited < TimeoutTicks
    /\ waited' = waited + 1
    /\ now' = IF now > TimeoutTicks THEN now ELSE now + 1
    /\ UNCHANGED <<cfg, pc, tasks, on_safety_timeout, nsub, fut, idx, results,
                   how, invoked, rg, guard_results, response>>
    /\ UNCHANGED <<parseVars, storeVars>>

\* the for loop moves to the next future, or leaves the loop
NextFuture ==
    IF idx = Len(tasks)
    THEN pc' = "shutdown" /\ UNCHANGED idx /\ waited' = 0
    ELSE pc' = "wait" /\ idx' = idx + 1 /\ waited' = 0

\* result = future.result(timeout=timeout_sec); results[idx] = result
Collect ==
    /\ pc = "wait"
    /\ fut[idx].st = "done"
    /\ results' = [results EXCEPT ![idx] = fut[idx].res]
    /\ how' = [how EXCEPT ![idx] = "result"]
    /\ NextFuture
    /\ UNCHANGED <<cfg, tasks, on_safety_timeout, nsub, fut, now, invoked, rg,
                   guard_results, response>>
    /\ UNCHANGED <<parseVars, storeVars>>

\* except FuturesTimeoutError
Timeout ==
    /\ pc = "wait"
    /\ fut[idx].st = "running"
    /\ waited = TimeoutTicks
    /\ results' = [results EXCEPT ![idx] =
                     TimeoutResult(tasks[idx], get_guard_model(tasks[idx]),
                                   on_safety_timeout)]
    /\ how' = [how EXCEPT ![idx] = "timeout"]
    /\ NextFuture
    /\ UNCHANGED <<cfg, tasks, on_safety_timeout, nsub, fut, now, invoked, rg,
                   guard_results, response>>
    /\ UNCHANGED <<parseVars, storeVars>>

\* every worker the executor started has finished
WorkersJoined == \A i \in 1..Len(fut) : fut[i].st # "running"

\* the with block ends: ThreadPoolExecutor.__exit__ is shutdown(wait=True),
\* which joins every worker; then return [r for r in results if r is not None]
Return ==
    /\ pc = "shutdown"
    /\ WorkersJoined
    /\ rg' = [kind |-> "ret", list |-> DropNone(results), text |-> <<>>]
    /\ pc' = "returned"
    /\ UNCHANGED <<cfg, tasks, on_safety_timeout, nsub, fut, idx, waited, now,
                   results, how, invoked, guard_results, response>>
    /\ UNCHANGED <<parseVars, storeVars>>

\* the with block left by an exception: the same join, then the exception
\* leaves run_guards
Unwind ==
    /\ pc = "unwind"
    /\ WorkersJoined
    /\ pc' = "raised"
    /\ UNCHANGED <<cfg, tasks, on_safety_timeout, nsub, fut, idx, waited, now,
                   results, how, invoked, rg, guard_results, response>>
    /\ UNCHANGED <<parseVars, storeVars>>

(***************************************************************************)
(* chat (main.py), from the call of run_guards on.                         *)
(***************************************************************************)
\* a skip_guards branch that answers without storing the exchange
ChatSkipGuardsUnstored ==
    /\ pc = "call"
    /\ response' = [sent |-> TRUE, blocked |-> FALSE, text |-> Reply, guard_results |-> <<>>]
    /\ pc' = "done"
    /\ UNCHANGED <<cfg, tasks, on_safety_timeout, nsub, fut, idx, waited, now,
                   results, how, invoked, rg, guard_results>>
    /\ UNCHANGED <<parseVars, storeVars>>

\* if req.skip_guards: append_exchange(...); return ChatResponse(...,
\* guard_results=[], blocked=False)
ChatSkipGuards ==
    /\ pc = "call"
    /\ AppendExchange(thr[1].sid, thr[1].x)
    /\ response' = [sent |-> TRUE, blocked |-> FALSE, text |-> Reply, guard_results |-> <<>>]
    /\ pc' = "done"
    /\ UNCHANGED <<cfg, tasks, on_safety_timeout, nsub, fut, idx, waited, now,
                   results, how, invoked, rg, guard_results>>
    /\ UNCHANGED <<parseVars, thr>>

\* a chat that stores the exchange as soon as run_guards returns
ChatGuardsReturnedStores ==
    /\ pc = "returned"
    /\ guard_results' = rg.list
    /\ AppendExchange(thr[1].sid, thr[1].x)
    /\ pc' = "decide"
    /\ UNCHANGED <<cfg, tasks, on_safety_timeout, nsub, fut, idx, waited, now,
                   results, how, invoked, rg, response>>
    /\ UNCHANGED <<parseVars, thr>>

\* guard_results = run_guards(message, raw_response, GUARD_FNS)
ChatGuardsReturned ==
    /\ pc = "returned"
    /\ guard_results' = rg.list
    /\ pc' = "decide"
    /\ UNCHANGED <<cfg, tasks, on_safety_timeout, nsub, fut, idx, waited, now,
                   results, how, invoked, rg, response>>
    /\ UNCHANGED <<parseVars, storeVars>>

\* an except branch that swallows the failure with an empty list
ChatGuardsFailedEmpty ==
    /\ pc = "raised"
    /\ guard_results' = <<>>
    /\ pc' = "decide"
    /\ UNCHANGED <<cfg, tasks, on_safety_timeout, nsub, fut, idx, waited, now,
                   results, how, invoked, rg, response>>
    /\ UNCHANGED <<parseVars, storeVars>>

\* except Exception as e: guard_results = [GuardResult("pipeline", "flag", ...)]
ChatGuardsFailed ==
    /\ pc = "raised"
    /\ guard_results' = <<GuardResult(PipelineName, Flag, GuardsErrorPrefix \o rg.text, <<>>)>>
    /\ pc' = "decide"
    /\ UNCHANGED <<cfg, tasks, on_safety_timeout, nsub, fut, idx, waited, now,
                   results, how, invoked, rg, response>>
    /\ UNCHANGED <<parseVars, storeVars>>

\* the blocked notice of chat
BlockedNotice(rs) ==
    LET blocking == get_blocking_guard(rs)
    IN  IF blocking # None /\ Strip(blocking.reason) # <<>>
        THEN BLOCKED_MESSAGE \o <<" ", "(">> \o blocking.name \o <<":", " ">>
             \o blocking.reason \o <<")">>
        ELSE BLOCKED_MESSAGE

\* the while loop of _normalize_guard_reason: the first prefix the lowered
\* text starts with is cut off and the rest stripped, until none is found
RECURSIVE StripPrefixes(_)
StripPrefixes(s) ==
    LET prefixes == << <<"p","a","s","s",".">>, <<"p","a","s","s",":">>,
                       <<"f","l","a","g",".">>, <<"f","l","a","g",":">>,
                       <<"b","l","o","c","k",".">>, <<"b","l","o","c","k",":">>,
                       <<"r","e","a","s","o","n",":">>, <<"r","e","a","s","o","n",".">> >>
        found == SelectSeq(prefixes, LAMBDA p : StartsWith(Lower(Take(s, Len(p))), p))
    IN  IF s = <<>> \/ found = <<>> THEN s
        ELSE StripPrefixes(Strip(SubSeq(s, Len(found[1]) + 1, Len(s))))

\* _normalize_guard_reason without the final cut
normalize_guard_reason_uncut(reason) ==
    IF reason = <<>> THEN <<>> ELSE StripPrefixes(Strip(reason))

\* _normalize_guard_reason(reason)
normalize_guard_reason(reason) ==
    IF reason = <<>> THEN <<>> ELSE Take(StripPrefixes(Strip(reason)), 120)

\* _guard_results_out(results); the except branch answers for a result whose
\* fields are not strings, and the engine builds every field as a string
guard_results_out(rs) ==
    [i \in 1..Len(rs) |->
        [name    |-> Strip(IF rs[i].name = <<>> THEN <<"g","u","a","r","d">> ELSE rs[i].name),
         verdict |-> IF Strip(IF rs[i].verdict = <<>> THEN Flag ELSE rs[i].verdict) = <<>>
                     THEN Flag
                     ELSE Strip(IF rs[i].verdict = <<>> THEN Flag ELSE rs[i].verdict),
         reason  |-> normalize_guard_reason(Take(Strip(rs[i].reason), 500)),
         model   |-> Take(Strip(rs[i].model), 100)]]

\* a blocked response that still carries the candidate reply
ChatBlockedShowsReply ==
    /\ pc = "decide"
    /\ any_block(guard_results)
    /\ response' = [sent |-> TRUE, blocked |-> TRUE, text |-> Reply,
                    guard_results |-> guard_results_out(guard_results)]
    /\ pc' = "done"
    /\ UNCHANGED <<cfg, tasks, on_safety_timeout, nsub, fut, idx, waited, now,
                   results, how, invoked, rg, guard_results>>
    /\ UNCHANGED <<parseVars, storeVars>>

\* a blocked branch that stores the exchange all the same
ChatBlockedStores ==
    /\ pc = "decide"
    /\ any_block(guard_results)
    /\ AppendExchange(thr[1].sid, thr[1].x)
    /\ response' = [sent |-> TRUE, blocked |-> TRUE, text |-> BlockedNotice(guard_results),
                    guard_results |-> guard_results_out(guard_results)]
    /\ pc' = "done"
    /\ UNCHANGED <<cfg, tasks, on_safety_timeout, nsub, fut, idx, waited, now,
                   results, how, invoked, rg, guard_results>>
    /\ UNCHANGED <<parseVars, thr>>

\* if any_block(guard_results): the blocked response
ChatBlocked ==
    /\ pc = "decide"
    /\ any_block(guard_results)
    /\ response' = [sent |-> TRUE, blocked |-> TRUE, text |-> BlockedNotice(guard_results),
                    guard_results |-> guard_results_out(guard_results)]
    /\ pc' = "done"
    /\ UNCHANGED <<cfg, tasks, on_safety_timeout, nsub, fut, idx, waited, now,
                   results, how, invoked, rg, guard_results>>
    /\ UNCHANGED <<parseVars, storeVars>>

\* otherwise: any_block(guard_results) is false and chat goes on to store
ChatPassed ==
    /\ pc = "decide"
    /\ ~any_block(guard_results)
    /\ pc' = "store"
    /\ UNCHANGED <<cfg, tasks, on_safety_timeout, nsub, fut, idx, waited, now,
                   results, how, invoked, rg, guard_results, response>>
    /\ UNCHANGED <<parseVars, storeVars>>

\* append_exchange(session_id, message, raw_response), then the response
\* with the candidate reply
ChatStore ==
    /\ pc = "store"
    /\ AppendExchange(thr[1].sid, thr[1].x)
    /\ response' = [sent |-> TRUE, blocked |-> FALSE, text |-> Reply,
                    guard_results |-> guard_results_out(guard_results)]
    /\ pc' = "done"
    /\ UNCHANGED <<cfg, tasks, on_safety_timeout, nsub, fut, idx, waited, now,
                   results, how, invoked, rg, guard_results>>
    /\ UNCHANGED <<parseVars, thr>>

Next ==
    \/ RunGuardsNoTasks
    \/ RunGuardsConfigFault
    \/ RunGuardsBegin
    \/ Submit
    \/ SubmitFails
    \/ \E i \in 1..Len(GUARD_FNS) : WorkerFinish(i)
    \/ Tick
    \/ Collect
    \/ Timeout
    \/ Return
    \/ Unwind
    \/ ChatGuardsReturned
    \/ ChatGuardsFailed
    \/ ChatBlocked
    \/ ChatPassed
    \/ ChatStore
    \/ ChatSkipGuards

Spec == Init /\ [][Next]_vars

(***************************************************************************)
(* The aggregation policy on arbitrary result lists: chat's decision       *)
(* (any_block, get_blocking_guard) applied to every list of at most        *)
(* MaxResults results, for MaxRequests requests one after another, each on *)
(* either session, on a store that earlier requests have appended no or    *)
(* MaxPrior exchanges of session "s1" to.                                  *)
(***************************************************************************)
MaxResults == 3
MaxRequests == 3

\* the results a list may hold at position i: any verdict, with or without
\* a reason
ResultsAt(i) ==
    { GuardResult(GUARD_FNS[((i - 1) % Len(GUARD_FNS)) + 1], v, r, Phi3) :
        v \in VerdictWords, r \in {<<>>, <<"r">>} }

ResultLists ==
    UNION { { rs \in [1..n -> UNION {ResultsAt(i) : i \in 1..n}] :
                \A i \in 1..n : rs[i] \in ResultsAt(i) } : n \in 0..MaxResults }

AggInit ==
    /\ cfg \in [enabled : {GuardNames}, on_safety_timeout : {[kind |-> "none", val |-> <<>>]}]
    /\ pc = "decide"
    /\ tasks = <<>>
    /\ on_safety_timeout = Flag
    /\ nsub = 0
    /\ fut = <<>>
    /\ idx = 0
    /\ waited = 0
    /\ now = 0
    /\ results = <<>>
    /\ how = <<>>
    /\ invoked = {}
    /\ rg = NoCall
    /\ guard_results \in ResultLists
    /\ response = NoResponse
    /\ ParseIdle
    /\ \E n \in {0, MaxPrior} :
         /\ lists = <<PriorBuffer(n), <<>> >>
         /\ appended = [i \in 1..n |-> [sid |-> "s1", x |-> <<0, i>>]]
    /\ sessions = [s \in SessionIds |-> IF s = "s1" THEN 1 ELSE 2]
    /\ \E sid \in SessionIds : thr = <<ChatRequest(sid, MaxRequests)>>

\* the next request, after the response of the one before: its session and
\* the results the guards give for its candidate reply (no result or one)
NextRequest ==
    /\ pc = "done"
    /\ thr[1].left > 1
    /\ \E sid \in SessionIds : thr' = <<ChatRequest(sid, thr[1].left - 1)>>
    /\ guard_results' \in {rs \in ResultLists : Len(rs) <= 1}
    /\ response' = NoResponse
    /\ pc' = "decide"
    /\ UNCHANGED <<cfg, tasks, on_safety_timeout, nsub, fut, idx, waited, now,
                   results, how, invoked, rg>>
    /\ UNCHANGED <<parseVars, lists, sessions, appended>>

AggNext ==
    \/ ChatBlocked
    \/ ChatPassed
    \/ ChatStore
    \/ NextRequest

AggSpec == AggInit /\ [][AggNext]_vars

(***************************************************************************)
(* _parse_verdict on its own: one call for each text of a bounded set.     *)
(* The texts are the concatenations of at most MaxParts fragments (verdict *)
(* words, separators, a line longer than the reason limit, JSON objects),  *)
(* and a few sample texts that need more fragments than that.              *)
(***************************************************************************)
MaxParts == 3

\* a line one character longer than the reason limit
LongLine == [i \in 1..(MaxReasonLen + 1) |-> "x"]

Fragments ==
    { <<"P","a","s","s">>, Block, Flag, <<"\n">>, <<" ">>, LongLine,
      <<"{","\"","v","e","r","d","i","c","t","\"",":","\"","p","a","s","s","\"",",","\"","r","e","a","s","o","n","\"",":","\"","b","l","o","c","k","\"","}">>,
      <<"{","\"","v","e","r","d","i","c","t","\"",":","\"","m","a","y","b","e","\"",",","\"","r","e","s","u","l","t","\"",":","\"","p","a","s","s","\"","}">> }

RECURSIVE Concats(_)
Concats(n) ==
    IF n = 0 THEN {<<>>}
    ELSE Concats(n - 1) \cup {a \o f : a \in Concats(n - 1), f \in Fragments}

\* an object whose member "a" holds arrays nested to the given depth
NestedArrays(depth) ==
    <<"{","\"","a","\"",":">> \o [i \in 1..depth |-> "["] \o [i \in 1..depth |-> "]"] \o <<"}">>

SampleTexts ==
    { <<"{","\"","r","e","s","u","l","t","\"",":","\"","p","a","s","s","\"",",","\"","v","e","r","d","i","c","t","\"",":","\"","b","l","o","c","k","\"","}">>,
      <<"{","\"","v","e","r","d","i","c","t","\"",":","\"","\"",",","\"","r","e","s","u","l","t","\"",":","\""," ","F","l","a","g","\"",",","\"","e","x","p","l","a","n","a","t","i","o","n","\"",":","\""," ","w","h","y"," ","\"","}">>,
      <<"x"," ","{","\"","a","\"",":","[","[","1","]",",","{","}","]",",","\"","r","e","s","u","l","t","\"",":","\"","b","l","o","c","k","\"",",","\"","r","e","a","s","o","n","\"",":","[","\"","a","\"",",","1","]","}"," ","y">>,
      <<"{","\"","v","e","r","d","i","c","t","\"",":","\"","p","a","s","s","\"",",","\"","r","e","a","s","o","n","\"",":","\"">>
          \o LongLine \o <<"\"","}">>,
      NestedArrays(RecursionLimit - 1),
      NestedArrays(RecursionLimit) }

ParseInit ==
    /\ text \in Concats(MaxParts) \cup SampleTexts
    /\ parsed = NoParsed
    /\ RunIdle
    /\ StoreIdle

\* verdict, reason = _parse_verdict(text)
ParseCall ==
    /\ pc = "idle"
    /\ ~parsed.done
    /\ parsed' = [done |-> TRUE] @@ ParseVerdict(text)
    /\ UNCHANGED <<text, runVars, storeVars>>

ParseSpec == ParseInit /\ [][ParseCall]_vars

(***************************************************************************)
(* The session store.  A list object is an entry of `lists`; _sessions     *)
(* maps a session id to the index of its list.  Every request (chat runs   *)
(* in a worker thread of the server) calls get_history and append_exchange *)
(* with no lock, so the statements of two calls interleave.  A message is  *)
(* the pair of its role and its content; the content is the number of the  *)
(* exchange, <<thread, call>>.                                             *)
(***************************************************************************)
\* one request after another, on a fresh store
StoreInit ==
    /\ lists = <<>>
    /\ sessions = [s \in SessionIds |-> 0]
    /\ thr = [t \in {1} |-> ThreadIdle(MaxCalls)]
    /\ appended = <<>>
    /\ RunIdle
    /\ ParseIdle

\* NumThreads concurrent requests, on a store that earlier requests have
\* appended up to MaxPrior exchanges of session "s1" to
ConcInit ==
    /\ \E n \in 0..MaxPrior :
         /\ lists = IF n = 0 THEN <<>> ELSE <<PriorBuffer(n)>>
         /\ sessions = [s \in SessionIds |-> IF s = "s1" /\ n > 0 THEN 1 ELSE 0]
         /\ appended = [i \in 1..n |-> [sid |-> "s1", x |-> <<0, i>>]]
    /\ thr = [t \in 1..NumThreads |-> ThreadIdle(ConcCalls)]
    /\ RunIdle
    /\ ParseIdle

\* get_history(session_id): return list(_sessions[session_id])
GetHistory(t) ==
    /\ thr[t].pc = "idle"
    /\ \E sid \in SessionIds :
         /\ lists' = ListsWith(sid)
         /\ sessions' = SessionsWith(sid)
         /\ thr' = [thr EXCEPT ![t].got =
                       [set |-> TRUE, sid |-> sid, list |-> ListsWith(sid)[SessionsWith(sid)[sid]]]]
    /\ UNCHANGED <<appended, runVars, parseVars>>

\* append_exchange is called: messages = _sessions[session_id]
AppendExchangeBegin(t) ==
    /\ thr[t].pc = "idle"
    /\ thr[t].left > 0
    /\ \E sid \in SessionIds :
         /\ lists' = ListsWith(sid)
         /\ sessions' = SessionsWith(sid)
         /\ thr' = [thr EXCEPT ![t] =
                       [pc |-> "user", sid |-> sid, ref |-> SessionsWith(sid)[sid],
                        x |-> <<t, thr[t].left>>, got |-> NoGot, left |-> thr[t].left - 1]]
    /\ UNCHANGED <<appended, runVars, parseVars>>

\* messages.append({"role": "user", "content": user_message})
AppendUser(t) ==
    /\ thr[t].pc = "user"
    /\ lists' = [lists EXCEPT ![thr[t].ref] = Append(@, UserMessage(thr[t].x))]
    /\ thr' = [thr EXCEPT ![t].pc = "assistant"]
    /\ UNCHANGED <<sessions, appended, runVars, parseVars>>

\* messages.append({"role": "assistant", "content": assistant_message})
AppendAssistant(t) ==
    /\ thr[t].pc = "assistant"
    /\ lists' = [lists EXCEPT ![thr[t].ref] = Append(@, AssistantMessage(thr[t].x))]
    /\ thr' = [thr EXCEPT ![t].pc = "trim"]
    /\ UNCHANGED <<sessions, appended, runVars, parseVars>>

\* if len(messages) > MAX_HISTORY_MESSAGES:
\*     _sessions[session_id] = messages[-MAX_HISTORY_MESSAGES:]
\* and the call returns
AppendExchangeEnd(t) ==
    /\ thr[t].pc = "trim"
    /\ IF Len(lists[thr[t].ref]) > MAX_HISTORY_MESSAGES
       THEN /\ lists' = Append(lists, Trimmed(lists[thr[t].ref]))
            /\ sessions' = [sessions EXCEPT ![thr[t].sid] = Len(lists) + 1]
       ELSE UNCHANGED <<lists, sessions>>
    /\ appended' = Append(appended, [sid |-> thr[t].sid, x |-> thr[t].x])
    /\ thr' = [thr EXCEPT ![t].pc = "idle"]
    /\ UNCHANGED <<runVars, parseVars>>

StoreNext ==
    \/ \E t \in DOMAIN thr : GetHistory(t)
    \/ \E t \in DOMAIN thr : AppendExchangeBegin(t)
    \/ \E t \in DOMAIN thr : AppendUser(t)
    \/ \E t \in DOMAIN thr : AppendAssistant(t)
    \/ \E t \in DOMAIN thr : AppendExchangeEnd(t)

StoreSpec == StoreInit /\ [][StoreNext]_vars

ConcSpec == ConcInit /\ [][StoreNext]_vars

(***************************************************************************)
(* Properties.                                                             *)
(***************************************************************************)
Slots == 1..Len(results)

\* the configuration asks for the block policy
ConfiguredBlock ==
    cfg.on_safety_timeout = [kind |-> "str", val |-> <<" ","B","l","o","c","k"," ">>]

\* C1: when run_guards returns, it returns exactly one result per enabled
\* guard, the i-th result is the i-th enabled guard's in GUARD_FNS order,
\* whatever the completions, timeouts and errors were; the check function of
\* a disabled guard is never called.
C1_OneResultPerTaskInOrder ==
    /\ invoked \subseteq cfg.enabled
    /\ rg.kind = "ret" =>
         /\ Len(rg.list) = Cardinality(cfg.enabled)
         /\ \A i \in 1..Len(rg.list) :
              /\ rg.list[i].name \in cfg.enabled
              /\ \A j \in 1..Len(rg.list) :
                   i < j => \E a, b \in 1..Len(GUARD_FNS) :
                              /\ a < b
                              /\ GUARD_FNS[a] = rg.list[i].name
                              /\ GUARD_FNS[b] = rg.list[j].name

\* run_guards returned three results, one of a timed-out task that precedes a
\* task whose check raised, with a guard disabled
C1_Witness ==
    /\ rg.kind = "ret"
    /\ Len(rg.list) = 3
    /\ how[1] = "timeout"
    /\ how[2] = "result" /\ fut[2].out.kind = "raise"
    /\ how[3] = "result" /\ fut[3].out.kind = "text"

\* C2: the timeout is per task, counted from the task's own dispatch: a check
\* that finishes later than the timeout after its dispatch never has its own
\* verdict in its slot (its slot holds the synthesized timeout result).
C2_TimeoutPerTaskFromDispatch ==
    \A i \in Slots : fut[i].st = "done" /\ fut[i].late => how[i] # "result"

\* C3: a timed-out check is abandoned: once the loop has filled every slot,
\* run_guards can return, whether or not a timed-out check is still running.
C3_ReturnsWithoutAbandonedChecks ==
    pc = "shutdown" => ENABLED Return

\* C4: a timed-out safety task under the block policy has the block result
\* with the fixed reason in its slot, and the response is blocked with the
\* safety result as the blocking one; under the flag policy its slot holds
\* flag/"Timeout", and a blocked response has a block from another task.
C4_SafetyTimeoutPolicy ==
    \A i \in Slots :
        how[i] = "timeout" /\ tasks[i] = SAFETY_GUARD_NAME =>
            IF ConfiguredBlock
            THEN /\ results[i].verdict = Block
                 /\ results[i].reason = SafetyTimeoutReason
                 /\ response.sent =>
                      /\ response.blocked
                      /\ get_blocking_guard(guard_results) = results[i]
                      /\ get_blocking_guard(guard_results).name = SAFETY_GUARD_NAME
            ELSE /\ results[i].verdict = Flag
                 /\ results[i].reason = TimeoutReason
                 /\ response.sent /\ response.blocked =>
                      \E j \in Slots : j # i /\ results[j].verdict = Block

\* the safety task timed out under the block policy beside two other tasks,
\* and the response was sent
C4_Witness ==
    /\ ConfiguredBlock
    /\ Len(tasks) = 3
    /\ tasks[1] = SAFETY_GUARD_NAME
    /\ how[1] = "timeout"
    /\ response.sent

\* C5: the response is blocked iff some result has verdict block; the blocking
\* result is the block result of least index, and it is None exactly when
\* nothing blocks; lists of flag and pass alone never block.
C5_Aggregation ==
    LET rs == guard_results
        blocks == {i \in 1..Len(rs) : rs[i].verdict = Block}
    IN  /\ response.sent => (response.blocked <=> blocks # {})
        /\ any_block(rs) <=> blocks # {}
        /\ blocks = {} <=> get_blocking_guard(rs) = None
        /\ blocks # {} =>
             \E i \in blocks :
                /\ \A j \in blocks : i <= j
                /\ get_blocking_guard(rs) = rs[i]

\* a list with a flag first and two blocks after it was decided
C5_Witness ==
    /\ response.sent
    /\ Len(guard_results) = 3
    /\ guard_results[1].verdict = Flag
    /\ guard_results[2].verdict = Block
    /\ guard_results[3].verdict = Block

\* C6: the format and pii checks never return block, whatever the classifier
\* answered; so every block result in the slots and in the list chat decides
\* on is named safety or topic.
C6_OnlySafetyAndTopicBlock ==
    /\ \A i \in 1..Len(fut) :
         fut[i].st = "done" /\ tasks[i] \in {FormatName, PiiName} =>
            fut[i].res.verdict # Block
    /\ \A i \in Slots :
         results[i].verdict = Block => results[i].name \in {SAFETY_GUARD_NAME, TopicName}
    /\ \A i \in 1..Len(guard_results) :
         guard_results[i].verdict = Block =>
            guard_results[i].name \in {SAFETY_GUARD_NAME, TopicName}

\* the classifier answered "block\nreason" to the format and to the pii check,
\* under the block policy, and the results were returned
C6_Witness ==
    /\ ConfiguredBlock
    /\ rg.kind = "ret"
    /\ \E i, j \in Slots :
         /\ tasks[i] = FormatName /\ tasks[j] = PiiName
         /\ how[i] = "result" /\ how[j] = "result"
         /\ fut[i].out = [kind |-> "text", text |-> <<"b","l","o","c","k","\n","r","e","a","s","o","n">>]
         /\ fut[j].out = fut[i].out

\* C7: a block result comes only from classifier text that the normalizer
\* reads as block in the safety or topic guard, or from a timeout of the
\* safety task under the block policy; a failure of run_guards itself yields
\* no block.
C7_FailOpen ==
    /\ \A i \in Slots :
         results[i].verdict = Block =>
            \/ /\ how[i] = "result"
               /\ tasks[i] \in {SAFETY_GUARD_NAME, TopicName}
               /\ fut[i].out.kind = "text"
               /\ ParseVerdict(fut[i].out.text).verdict = Block
            \/ /\ how[i] = "timeout"
               /\ tasks[i] = SAFETY_GUARD_NAME
               /\ ConfiguredBlock
    /\ rg.kind = "exc" => \A i \in 1..Len(guard_results) : guard_results[i].verdict # Block
    /\ rg.kind = "ret" => guard_results \in {<<>>, rg.list}

\* all four tasks ended without a classifier verdict (a classifier error, a
\* raising check, two timeouts of tasks other than safety) and nothing blocks
C7_Witness ==
    /\ response.sent /\ ~response.blocked
    /\ Len(tasks) = 4
    /\ how[1] = "result" /\ fut[1].out.kind = "error"
    /\ how[2] = "result" /\ fut[2].out.kind = "raise"
    /\ how[3] = "timeout"
    /\ how[4] = "timeout"

C9_ClassifierErrorIsFlag ==
    \A i \in 1..Len(fut) :
        fut[i].st = "done" /\ fut[i].out.kind = "error" =>
            /\ fut[i].res.name = tasks[i]
            /\ fut[i].res.verdict = Flag
            /\ Len(fut[i].res.reason) > 0
            /\ fut[i].res.reason = OllamaErrorPrefix \o fut[i].out.text

\* the classifier call failed in all four guards
C9_Witness ==
    /\ Len(fut) = 4
    /\ \A i \in 1..4 : fut[i].st = "done" /\ fut[i].out.kind = "error"

\* C10: when run_guards raises, chat decides on a list of exactly one flag
\* result named pipeline, and the response is the candidate reply, not blocked.
C10_PipelineFailureIsOneFlag ==
    rg.kind = "exc" /\ pc \in {"decide", "store", "done"} =>
        /\ Len(guard_results) = 1
        /\ guard_results[1].name = PipelineName
        /\ guard_results[1].verdict = Flag
        /\ guard_results[1].reason = GuardsErrorPrefix \o rg.text
        /\ response.sent => ~response.blocked /\ response.text = Reply

\* run_guards raised after a task had been dispatched, and the response was sent
C10_Witness ==
    /\ rg.kind = "exc"
    /\ nsub >= 1
    /\ response.sent

(***************************************************************************)
(* Properties of _parse_verdict, under ParseSpec.                          *)
(***************************************************************************)
\* the text up to its first newline, and the text after it
FirstLineOf(t) == SplitLines(t)[1]
RestOf(t) == JoinLines(Tail(SplitLines(t)))

\* the first line of the trimmed text, trimmed and case-folded
FirstWord(t) == Lower(Strip(FirstLineOf(Strip(t))))

\* the text from its first "{" to its last "}", "" when there is none
BraceSpan(t) ==
    IF (\A i \in 1..Len(t) : t[i] # "{") \/ (\A i \in 1..Len(t) : t[i] # "}") THEN <<>>
    ELSE SubSeq(t, MinOf({i \in 1..Len(t) : t[i] = "{"}), MaxOf({i \in 1..Len(t) : t[i] = "}"}))

\* the canonical words that the verdict or the result field of an object equals
CanonicalFields(obj) ==
    {w \in VerdictWords :
        \/ JsonGet(obj, VerdictKey) = [t |-> "str", v |-> w]
        \/ JsonGet(obj, ResultKey) = [t |-> "str", v |-> w]}

\* the text holds none of the three verdict words
NoVerdictWord(t) == \A w \in VerdictWords : ~Contains(Lower(t), w)

\* C11: _parse_verdict is total: for every text it returns, without raising,
\* a verdict in {pass, flag, block} and a reason of at most 200 characters.
C11_NormalizerTotal ==
    parsed.done =>
        /\ ~parsed.raised
        /\ parsed.verdict \in VerdictWords
        /\ Len(parsed.reason) <= MaxReasonLen

\* C12: when the first line of the text, trimmed and case-folded, is pass,
\* flag or block, that word is the verdict whatever the later lines hold, and
\* the reason is the remaining lines, trimmed and cut to 200 characters.
C12_FirstLineWins ==
    parsed.done /\ Lower(Strip(FirstLineOf(text))) \in VerdictWords =>
        /\ ~parsed.raised
        /\ parsed.verdict = Lower(Strip(FirstLineOf(text)))
        /\ parsed.reason = Take(Strip(RestOf(text)), MaxReasonLen)

\* the first line says pass, a later line holds a JSON object and the word
\* block, and the call returned
C12_Witness ==
    /\ parsed.done
    /\ Lower(Strip(FirstLineOf(text))) = Pass
    /\ Contains(RestOf(text), Block)
    /\ JsonLoads(BraceSpan(RestOf(text))).ok
    /\ parsed.verdict = Pass

\* C13: when the first line is no bare verdict word and the text from the
\* first "{" to the last "}" parses as an object with a verdict or result
\* field equal to a canonical word, the returned verdict is such a field's
\* word, whatever words occur elsewhere in the text.
C13_JsonFieldWins ==
    /\ parsed.done
    /\ FirstWord(text) \notin VerdictWords
    /\ JsonLoads(BraceSpan(text)).ok
    /\ CanonicalFields(JsonLoads(BraceSpan(text)).obj) # {}
    => /\ ~parsed.raised
       /\ parsed.verdict \in CanonicalFields(JsonLoads(BraceSpan(text)).obj)

\* C14: when neither rule 1 nor rule 2 gives the verdict, it is block if the
\* text contains "block" (case-insensitive), else flag if it contains "flag",
\* else pass; block is returned only for a text that contains block, and a
\* text with no verdict word yields pass.
C14_SubstringFallback ==
    parsed.done =>
        /\ FirstWord(text) \notin VerdictWords /\ ~JsonVerdict(Strip(text)).hit =>
              /\ ~parsed.raised
              /\ parsed.verdict =
                    IF Contains(Lower(text), Block) THEN Block
                    ELSE IF Contains(Lower(text), Flag) THEN Flag
                    ELSE Pass
        /\ parsed.verdict = Block => Contains(Lower(text), Block)
        /\ NoVerdictWord(text) => ~parsed.raised /\ parsed.verdict = Pass

\* the same for the calls that return: where _parse_verdict does not raise,
\* rule 3 is as C14 states it
C14_FallbackWhenReturned ==
    parsed.done /\ ~parsed.raised =>
        /\ FirstWord(text) \notin VerdictWords /\ ~JsonVerdict(Strip(text)).hit =>
              parsed.verdict =
                    IF Contains(Lower(text), Block) THEN Block
                    ELSE IF Contains(Lower(text), Flag) THEN Flag
                    ELSE Pass
        /\ parsed.verdict = Block => Contains(Lower(text), Block)
        /\ NoVerdictWord(text) => parsed.verdict = Pass

(***************************************************************************)
(* Properties of the chat response, under Spec.                            *)
(***************************************************************************)
\* the blocked notice that names the result r
NoticeNaming(r) ==
    BLOCKED_MESSAGE \o <<" ", "(">> \o r.name \o <<":", " ">> \o r.reason \o <<")">>

\* C15: the response of a request that ran the guards: when no result has
\* verdict block it is not blocked and its text is the candidate reply; when
\* some result has verdict block it is blocked and its text is the fixed
\* notice, alone or followed by the name and reason of a blocking result, and
\* not the candidate reply.
C15_ResponseText ==
    response.sent =>
        IF \A i \in 1..Len(guard_results) : guard_results[i].verdict # Block
        THEN ~response.blocked /\ response.text = Reply
        ELSE /\ response.blocked
             /\ response.text # Reply
             /\ \/ response.text = BLOCKED_MESSAGE
                \/ \E i \in 1..Len(guard_results) :
                      /\ guard_results[i].verdict = Block
                      /\ response.text = NoticeNaming(guard_results[i])

\* run_guards returned a flag and a block with a reason, and the blocked
\* response names the blocking guard
C15_Witness ==
    /\ response.sent
    /\ rg.kind = "ret"
    /\ response.blocked
    /\ response.text # BLOCKED_MESSAGE
    /\ \E i \in 1..Len(guard_results) : guard_results[i].verdict = Flag

(***************************************************************************)
(* Properties of the dispatch and of the result slots, under Spec.         *)
(***************************************************************************)
\* C19: every enabled task is dispatched before run_guards waits on any, each
\* on a worker of its own: the executor has as many workers as tasks, a
\* dispatched task is running or done and never queued behind another, so one
\* that hangs holds back the start of no other.
C19_AllDispatchedOwnWorker ==
    /\ pc \in {"wait", "shutdown"} =>
          /\ nsub = Len(tasks)
          /\ \A i \in 1..Len(fut) : fut[i].st \in {"running", "done"}
    /\ \A i \in 1..Len(fut) : fut[i].st # "queued"
    /\ \A i \in 1..Len(fut) : i <= nsub => fut[i].st \in {"running", "done"}
    /\ Cardinality(Running(fut)) <= max_workers(Len(tasks))
    /\ tasks # <<>> => max_workers(Len(tasks)) = Len(tasks)

\* four tasks were dispatched; the first three hang while run_guards waits
\* on the first, and the last one has completed
C19_Witness ==
    /\ pc = "wait"
    /\ Len(tasks) = 4
    /\ idx = 1
    /\ waited = TimeoutTicks
    /\ \A i \in 1..3 : fut[i].st = "running"
    /\ fut[4].st = "done"

\* C20: a slot that has been written is never written again, a slot is
\* written only by the loop of run_guards, for the task it waits on, and the
\* completion of a check changes no slot, no other task and nothing of the
\* decision, also when the slot already holds a synthesized timeout result.
C20_SlotsWrittenOnce ==
    [][ /\ \A i \in 1..Len(results) :
             how[i] # "none" => results'[i] = results[i] /\ how'[i] = how[i]
        /\ \A i \in 1..Len(results) :
             Len(results') = Len(results) /\ results'[i] # results[i] =>
                /\ pc = "wait"
                /\ i = idx
                /\ how[i] = "none"
                /\ results'[i].name = tasks[i]
        /\ \A i \in 1..Len(fut) :
             Len(fut') = Len(fut) /\ fut[i].st = "running" /\ fut'[i].st = "done" =>
                /\ results' = results
                /\ how' = how
                /\ rg' = rg
                /\ guard_results' = guard_results
                /\ response' = response
                /\ \A j \in 1..Len(fut) : j # i => fut'[j] = fut[j]
      ]_vars

\* the safety check timed out and got the synthesized flag result; it
\* completed later with verdict block, and the response was sent unblocked
\* with the timeout result in the slot
C20_Witness ==
    /\ response.sent
    /\ ~response.blocked
    /\ rg.kind = "ret"
    /\ Len(rg.list) >= 1
    /\ tasks[1] = SAFETY_GUARD_NAME
    /\ how[1] = "timeout"
    /\ fut[1].st = "done"
    /\ fut[1].res.verdict = Block
    /\ rg.list[1].verdict = Flag
    /\ rg.list[1].reason = TimeoutReason

(***************************************************************************)
(* Properties of the session store, under StoreSpec and ConcSpec.          *)
(***************************************************************************)
\* the list _sessions holds for a session, [] when it has no key
Buffer(sid) == IF sessions[sid] = 0 THEN <<>> ELSE lists[sessions[sid]]

\* the messages of the exchanges appended to a session so far, oldest first
RECURSIVE MessagesOf(_, _)
MessagesOf(log, sid) ==
    IF log = <<>> THEN <<>>
    ELSE MessagesOf(SubSeq(log, 1, Len(log) - 1), sid)
         \o (IF log[Len(log)].sid = sid
             THEN <<UserMessage(log[Len(log)].x), AssistantMessage(log[Len(log)].x)>>
             ELSE <<>>)

\* the last n entries of a sequence, all of it when it is shorter
LastOf(q, n) == IF Len(q) <= n THEN q ELSE SubSeq(q, Len(q) - n + 1, Len(q))

\* C16: with one call after another, the buffer of every session, and what
\* get_history returns for it, is the last min(20, 2n) messages of the n
\* exchanges appended to that session, in the order appended, user before
\* assistant; exchanges of another session do not count.
C16_LastTwentyInOrder ==
    \A t \in DOMAIN thr :
        thr[t].pc = "idle" =>
            /\ \A sid \in SessionIds :
                  Buffer(sid) = LastOf(MessagesOf(appended, sid), MAX_HISTORY_MESSAGES)
            /\ thr[t].got.set =>
                  thr[t].got.list =
                      LastOf(MessagesOf(appended, thr[t].got.sid), MAX_HISTORY_MESSAGES)

\* eleven exchanges were appended to one session and one to the other, and
\* get_history returned twenty messages of the first
C16_Witness ==
    /\ Len(MessagesOf(appended, "s1")) = 22
    /\ Len(MessagesOf(appended, "s2")) = 2
    /\ thr[1].pc = "idle"
    /\ thr[1].got.set
    /\ thr[1].got.sid = "s1"
    /\ Len(thr[1].got.list) = MAX_HISTORY_MESSAGES

\* the exchanges of a session whose append_exchange has returned, oldest first
CompletedOf(sid) == SelectSeq(appended, LAMBDA e : e.sid = sid)

\* the buffer of a session holds the user message of its i-th completed exchange
InBuffer(sid, i) ==
    \E j \in 1..Len(Buffer(sid)) : Buffer(sid)[j] = UserMessage(CompletedOf(sid)[i].x)

\* C17: with concurrent requests, every append_exchange that has returned
\* has its user message immediately followed by its assistant message in the
\* buffer, and no completed exchange is missing from the buffer while an
\* exchange completed before it is still there.
C17_AppendsSerialized ==
    \A sid \in SessionIds :
        /\ \A i \in 1..Len(CompletedOf(sid)) :
              \A j \in 1..Len(Buffer(sid)) :
                 Buffer(sid)[j] = UserMessage(CompletedOf(sid)[i].x) =>
                    /\ j < Len(Buffer(sid))
                    /\ Buffer(sid)[j + 1] = AssistantMessage(CompletedOf(sid)[i].x)
        /\ \A i \in 1..Len(CompletedOf(sid)) :
              \A k \in (i + 1)..Len(CompletedOf(sid)) :
                 InBuffer(sid, i) => InBuffer(sid, k)

\* the second half of C17 alone: a completed exchange is dropped only after
\* every exchange completed before it
C17_NoCompletedExchangeLost ==
    \A sid \in SessionIds :
        \A i \in 1..Len(CompletedOf(sid)) :
            \A k \in (i + 1)..Len(CompletedOf(sid)) :
               InBuffer(sid, i) => InBuffer(sid, k)

\* C18: get_history never returns more than 20 messages, also while another
\* request's append_exchange on the same session is in progress.
C18_HistoryAtMostTwenty ==
    \A t \in DOMAIN thr :
        thr[t].got.set => Len(thr[t].got.list) <= MAX_HISTORY_MESSAGES

(***************************************************************************)
(* Properties of the reasons and of the API results, under Spec.           *)
(***************************************************************************)
\* C21: every result in a list that run_guards returns has a reason of at
\* most 200 characters, whether it came from the normalizer, a classifier
\* error, an exception of the check, or a timeout.
C21_ReasonsAtMostTwoHundred ==
    rg.kind = "ret" =>
        \A i \in 1..Len(rg.list) : Len(rg.list[i].reason) <= MaxReasonLen

(***************************************************************************)
(* Properties of the guard results of the API response, under Spec.        *)
(***************************************************************************)

\* C22: the guard results of a sent response are as many as the engine's
\* results and in the same order (the i-th carries the stripped name and the
\* verdict of the engine's i-th result), every verdict is pass, flag or
\* block, and every reason has at most 120 characters.
C22_ResultsOutBounded ==
    response.sent =>
        /\ Len(response.guard_results) = Len(guard_results)
        /\ \A i \in 1..Len(guard_results) :
              /\ response.guard_results[i].name = Strip(guard_results[i].name)
              /\ response.guard_results[i].verdict = guard_results[i].verdict
              /\ response.guard_results[i].verdict \in VerdictWords
              /\ Len(response.guard_results[i].reason) <= 120

\* a sent response with two or more results, one of them with an engine
\* reason longer than 120 characters that the response carries cut to 120
C22_Witness ==
    /\ response.sent
    /\ Len(guard_results) >= 2
    /\ \E i \in 1..Len(guard_results) :
          /\ Len(guard_results[i].reason) > 120
          /\ Len(response.guard_results[i].reason) = 120

(***************************************************************************)
(* Properties of call_ollama_guard on the classifier's text, under         *)
(* ParseSpec.                                                              *)
(***************************************************************************)

\* C23: for a classifier text that is empty or holds none of the words pass,
\* flag, block, the verdict call_ollama_guard puts in its result is the
\* default verdict flag, never pass and never block.
C23_UnclearTextFlags ==
    parsed.done /\ NoVerdictWord(text) =>
        ParsedResult(SAFETY_GUARD_NAME, parsed).verdict = DEFAULT_VERDICT

(***************************************************************************)
(* Properties of chat and the session store: Spec for one request,         *)
(* AggSpec for requests one after another.                                 *)
(***************************************************************************)

\* C24: no step of run_guards changes the session store, and a step of the
\* request that changes it is chat's one append_exchange: nothing was
\* appended before it, it appends the exchange of the request, and it comes
\* after the decision (run_guards is over and no result blocks) or on the
\* skip_guards branch, where no guard runs.
C24_StoreOnlyAfterDecision ==
    [][ /\ pc \in {"submit", "wait", "shutdown", "unwind"} \/ rg' # rg =>
              UNCHANGED <<lists, sessions, appended>>
        /\ lists' # lists \/ sessions' # sessions \/ appended' # appended =>
              /\ appended = <<>>
              /\ appended' = <<[sid |-> thr[1].sid, x |-> thr[1].x]>>
              /\ \/ /\ pc = "store"
                    /\ rg.kind \in {"ret", "exc"}
                    /\ ~any_block(guard_results)
                 \/ /\ pc = "call"
                    /\ rg.kind = "none"
                    /\ rg' = rg
              /\ response'.sent /\ ~response'.blocked
      ]_vars

\* run_guards returned four results, none blocking, and the exchange of the
\* request was appended once, after the decision
C24_Witness ==
    /\ rg.kind = "ret"
    /\ Len(rg.list) = 4
    /\ response.sent /\ ~response.blocked
    /\ appended = <<[sid |-> thr[1].sid, x |-> thr[1].x]>>
    /\ Buffer(thr[1].sid) = <<UserMessage(thr[1].x), AssistantMessage(thr[1].x)>>

\* C25: over requests one after another, a request whose response is blocked
\* leaves the store as it was, and the store changes only by appending the
\* exchange of a request whose response is sent with blocked false, to the
\* buffer of its session; so no buffer ever holds a message of a blocked
\* exchange.
C25_BlockedNeverStored ==
    [][ /\ response'.sent /\ response'.blocked =>
              /\ UNCHANGED <<lists, sessions, appended>>
              /\ \A sid \in SessionIds : \A j \in 1..Len(Buffer(sid)') :
                    Buffer(sid)'[j].content # thr'[1].x
        /\ lists' # lists \/ sessions' # sessions \/ appended' # appended =>
              /\ ~any_block(guard_results)
              /\ response'.sent /\ ~response'.blocked
              /\ appended' = Append(appended, [sid |-> thr[1].sid, x |-> thr[1].x])
              /\ \A sid \in SessionIds :
                    Buffer(sid)' =
                        IF sid = thr[1].sid
                        THEN Trimmed(Buffer(sid) \o <<UserMessage(thr[1].x),
                                                      AssistantMessage(thr[1].x)>>)
                        ELSE Buffer(sid)
      ]_vars

\* the third request is blocked; of the two requests before it one was
\* blocked and one was stored, in the session of the third, whose buffer was
\* full before
C25_Witness ==
    /\ thr[1].left = MaxRequests - 2
    /\ response.sent /\ response.blocked
    /\ Len(appended) = MaxPrior + 1
    /\ appended[Len(appended)].sid = thr[1].sid
    /\ Len(Buffer(thr[1].sid)) = MAX_HISTORY_MESSAGES

\* C26: a request answered on the skip_guards branch, or with no guard
\* enabled, has dispatched no check, has an empty guard result list and
\* blocked false, carries the candidate reply, and its exchange is in the
\* buffer of its session.
C26_NoGuardsPassThrough ==
    response.sent /\ (rg.kind = "none" \/ cfg.enabled = {}) =>
        /\ invoked = {}
        /\ tasks = <<>> /\ nsub = 0 /\ fut = <<>>
        /\ rg.kind \in {"none", "ret"}
        /\ guard_results = <<>>
        /\ response.guard_results = <<>>
        /\ ~response.blocked
        /\ response.text = Reply
        /\ appended = <<[sid |-> thr[1].sid, x |-> thr[1].x]>>
        /\ Buffer(thr[1].sid) = <<UserMessage(thr[1].x), AssistantMessage(thr[1].x)>>

\* a request answered on the skip_guards branch while all four guards are
\* enabled
C26_Witness ==
    /\ response.sent
    /\ rg.kind = "none"
    /\ Cardinality(cfg.enabled) = 4
    /\ Len(appended) = 1

====
